---- MODULE Spec2Model ----
(***************************************************************************)
(* Model of the showcase framework (code/showcase/framework/src/lib.rs):   *)
(* the App lifecycle state machine and its winit event handlers, Display,  *)
(* and the CameraUniform staging-copy protocol.                            *)
(*                                                                         *)
(* Two specifications share the module:                                    *)
(*   Spec     - the host event loop driving App<D> (resumed, window_event, *)
(*              device_event), every handler one atomic action;            *)
(*   SpecCam  - a demo using CameraUniform against one command encoder.    *)
(* Values handed to the demo or to wgpu/winit are recorded as "calls":     *)
(* tuples <<function, argument, ...>> in the order the handler makes them. *)
(***************************************************************************)
EXTENDS Integers, Sequences, FiniteSets, TLC

\* ------------------------------------------------------------------ bounds
\* number of windows the host lets the framework create in one run
MaxWindows == 2
\* window widths and heights range over 0..MaxDim
MaxDim == 2
\* raw pointer deltas range over -MaxDelta..MaxDelta
MaxDelta == 1
\* commands one encoder holds before it is submitted
MaxCommands == 3

Dims == 0..MaxDim
Deltas == (0 - MaxDelta)..MaxDelta
\* window ids: 1.. are the windows this framework creates, in order; the ids
\* in ForeignWindows belong to windows it did not create
ForeignWindows == {0}

VARIABLES
    app,        \* the App<D> value: Uninitialized | Initialized { display, demo }
    loop,       \* the host event loop: "running", "exiting", "stopped", "aborted"
    nextWindow, \* id the next created window gets
    redraw,     \* windows with a redraw request pending at the host
    created,    \* how many windows, Displays and demos the run has created
    pre,        \* app, loop and redraw as they were when the last handler began
    lastEvent,  \* the signal the last handler was given
    lastCalls,  \* the calls the last handler made, in order
    lastResize, \* <<size>> of the latest Resized event delivered for the window
                \* of the Display app holds, <<>> when there was none yet
    frame       \* whether the number of render calls made so far is odd

appVars ==
    <<app, loop, nextWindow, redraw, created, pre, lastEvent, lastCalls,
      lastResize, frame>>

VARIABLES
    camera_uniform, \* the CameraUniform: [data, buffer]
    buffers,        \* the device's live buffers: id -> [contents, usage]
    encoder,        \* the commands recorded on the frame's CommandEncoder
    recorded,       \* the recording operations called on that encoder, in order
    seen,           \* <<data>> the latest executed render pass read, else <<>>
    lastInput,      \* <<camera, projection>> of the latest update_view_proj
                    \* call, <<>> when there was none yet
    spare_uniform,  \* a second CameraUniform of the same device
    binding,        \* a UniformBinding: [layout, bind_group]
    bound,          \* <<"new" or "rebind", the name of the CameraUniform>> of
                    \* the latest call that made binding.bind_group
    pending,        \* <<data>> camera_uniform had at the latest update_buffer
                    \* call on the current encoder, <<>> when there was none
    flushed         \* <<data>> camera_uniform had at the latest update_buffer
                    \* call whose encoder was submitted, <<>> when none was

camVars == <<camera_uniform, buffers, encoder, recorded, seen, lastInput,
             spare_uniform, binding, bound, pending, flushed>>

vars == <<appVars, camVars>>

\* ------------------------------------------------------------ Display
Size(width, height) == [width |-> width, height |-> height]

\* the surface of a Display: <<>> while never configured, else <<size>>
Unconfigured == <<>>

NoDisplay == [window |-> 0 - 1, config |-> Size(0, 0), surface |-> Unconfigured]
\* the demo value D, told apart by the D::init call that built it
DemoOf(instance) == [instance |-> instance]
NoDemo == DemoOf(0)

\* Display::new: the config takes window.inner_size(); the surface is created
\* but surface.configure is not called
DisplayNew(window, size) ==
    [window |-> window, config |-> size, surface |-> Unconfigured]

\* Display::resize without the surface.configure call
DisplayResizeNoConfigure(display, width, height) ==
    [display EXCEPT !.config = Size(width, height)]

\* Display::resize leaving a size with a zero dimension aside
DisplayResizeSkipZero(display, width, height) ==
    IF width > 0 /\ height > 0
    THEN [display EXCEPT !.config = Size(width, height),
                         !.surface = <<Size(width, height)>>]
    ELSE display

\* Display::resize
DisplayResize(display, width, height) ==
    [display EXCEPT !.config = Size(width, height),
                    !.surface = <<Size(width, height)>>]

\* ------------------------------------------------------------ App
Uninitialized == [tag |-> "Uninitialized", display |-> NoDisplay, demo |-> NoDemo]

Initialized(display, demo) ==
    [tag |-> "Initialized", display |-> display, demo |-> demo]

\* what a resume signal can meet: everything succeeds, create_window fails,
\* Display::new fails, D::init returns Err
Outcomes == {"ok", "no_window", "no_display", "init_error"}

\* number of calls to fn in a handler's calls
RECURSIVE Count(_, _)
Count(calls, fn) ==
    IF calls = <<>> THEN 0
    ELSE (IF Head(calls)[1] = fn THEN 1 ELSE 0) + Count(Tail(calls), fn)

\* position of the first call to fn in calls, 0 when there is none
RECURSIVE IndexOf(_, _)
IndexOf(calls, fn) ==
    IF calls = <<>> THEN 0
    ELSE IF Head(calls)[1] = fn THEN 1
    ELSE IF IndexOf(Tail(calls), fn) = 0 THEN 0
    ELSE 1 + IndexOf(Tail(calls), fn)

\* resumed going on with the state stored when D::init returned Err
resumed_ignoring_init_error(self, window, size, instance, outcome) ==
    LET display == DisplayNew(window, size)
        create  == <<"create_window", window>>
        request == <<"request_redraw", window>>
        new     == <<"Display::new", window>>
        init    == <<"init", display>>
    IN  CASE outcome = "no_window" ->
               [self |-> self, calls |-> <<create>>, panic |-> TRUE]
          [] outcome = "no_display" ->
               [self |-> self, calls |-> <<create, request, new>>, panic |-> TRUE]
          [] OTHER ->
               [self |-> Initialized(display, DemoOf(instance)),
                calls |-> <<create, request, new, init>>, panic |-> FALSE]

\* resumed asking for the first redraw only after the Display and the demo exist
resumed_redraw_last(self, window, size, instance, outcome) ==
    LET display == DisplayNew(window, size)
        create  == <<"create_window", window>>
        request == <<"request_redraw", window>>
        new     == <<"Display::new", window>>
        init    == <<"init", display>>
    IN  CASE outcome = "no_window" ->
               [self |-> self, calls |-> <<create>>, panic |-> TRUE]
          [] outcome = "no_display" ->
               [self |-> self, calls |-> <<create, new>>, panic |-> TRUE]
          [] outcome = "init_error" ->
               [self |-> self, calls |-> <<create, new, init>>, panic |-> TRUE]
          [] OTHER ->
               [self |-> Initialized(display, DemoOf(instance)),
                calls |-> <<create, new, init, request>>, panic |-> FALSE]

\* App::resumed. window: the id create_window returns; size: its inner_size;
\* instance: the demo D::init builds. Every unwrap() that fails panics, and
\* the assignment to *self is reached only when none did.
resumed(self, window, size, instance, outcome) ==
    LET display == DisplayNew(window, size)
        create  == <<"create_window", window>>
        request == <<"request_redraw", window>>
        new     == <<"Display::new", window>>
        init    == <<"init", display>>
    IN  CASE outcome = "no_window" ->
               [self |-> self, calls |-> <<create>>, panic |-> TRUE]
          [] outcome = "no_display" ->
               [self |-> self, calls |-> <<create, request, new>>, panic |-> TRUE]
          [] outcome = "init_error" ->
               [self |-> self, calls |-> <<create, request, new, init>>,
                panic |-> TRUE]
          [] OTHER ->
               [self |-> Initialized(display, DemoOf(instance)),
                calls |-> <<create, request, new, init>>, panic |-> FALSE]

\* ------------------------------------------------------------ CameraUniform
\* size_of::<f32>()
SizeOfF32 == 4

\* cgmath::Vector4 as <<x, y, z, w>>; cgmath::Matrix4 as its four columns
Zero4 == <<0, 0, 0, 0>>
Identity4 == <<<<1, 0, 0, 0>>, <<0, 1, 0, 0>>, <<0, 0, 1, 0>>, <<0, 0, 0, 1>>>>

\* Matrix4 * Matrix4: column j of the product is a * (column j of b)
MatMul(a, b) ==
    [j \in 1..4 |->
        [i \in 1..4 |->
            a[1][i] * b[j][1] + a[2][i] * b[j][2]
              + a[3][i] * b[j][3] + a[4][i] * b[j][4]]]

\* Point3::to_homogeneous
to_homogeneous(p) == <<p[1], p[2], p[3], 1>>

\* UniformData, #[repr(C)]: a Vector4<f32> followed by a Matrix4<f32>
UniformData(view_position, view_proj) ==
    [view_position |-> view_position, view_proj |-> view_proj]

\* bytemuck::cast_slice(&[data]): the f32 words of data in memory order
cast_slice(data) ==
    data.view_position \o data.view_proj[1] \o data.view_proj[2]
      \o data.view_proj[3] \o data.view_proj[4]

\* size_of::<UniformData>()
SizeOfUniformData == 4 * SizeOfF32 + 16 * SizeOfF32

\* an id no live buffer has
FreshBuffer(bufs) == CHOOSE id \in 1..(Cardinality(DOMAIN bufs) + 1) : id \notin DOMAIN bufs

\* device.create_buffer_init: the new buffer's id and the buffers with it
create_buffer_init(bufs, contents, usage) ==
    LET id == FreshBuffer(bufs)
    IN  [buffer |-> id,
         buffers |-> [b \in DOMAIN bufs \cup {id} |->
                        IF b = id THEN [contents |-> contents, usage |-> usage]
                        ELSE bufs[b]]]

\* a device without buffers
NoBuffers == [b \in {} |-> [contents |-> <<>>, usage |-> {}]]

\* CameraUniform::new
CameraUniformNew(bufs) ==
    LET data == UniformData(Zero4, Identity4)
        made == create_buffer_init(bufs, cast_slice(data), {"COPY_DST", "UNIFORM"})
    IN  [self |-> [data |-> data, buffer |-> made.buffer],
         buffers |-> made.buffers]

\* update_view_proj multiplying view by projection
update_view_proj_reversed(self, camera, projection) ==
    [self EXCEPT !.data = UniformData(to_homogeneous(camera.position),
                                      MatMul(camera.matrix, projection.matrix))]

\* CameraUniform::update_view_proj. camera is [position, matrix] and
\* projection is [matrix], matrix being what its calc_matrix() returns
update_view_proj(self, camera, projection) ==
    [self EXCEPT !.data = UniformData(to_homogeneous(camera.position),
                                      MatMul(projection.matrix, camera.matrix))]

CopyBufferToBuffer(source, source_offset, destination, destination_offset, size) ==
    <<"copy_buffer_to_buffer", source, source_offset, destination,
      destination_offset, size>>

\* update_buffer copying size_of the view_proj matrix only
update_buffer_matrix_only(self, bufs, enc) ==
    LET staging == create_buffer_init(bufs, cast_slice(self.data), {"COPY_SRC"})
    IN  [buffers |-> staging.buffers,
         encoder |-> Append(enc, CopyBufferToBuffer(staging.buffer, 0,
                                    self.buffer, 0, 16 * SizeOfF32))]

\* update_buffer recording the copy from the uniform buffer to the staging
\* buffer
update_buffer_copy_reversed(self, bufs, enc) ==
    LET staging == create_buffer_init(bufs, cast_slice(self.data), {"COPY_SRC"})
    IN  [buffers |-> staging.buffers,
         encoder |-> Append(enc, CopyBufferToBuffer(self.buffer, 0,
                                    staging.buffer, 0, SizeOfUniformData))]

\* CameraUniform::update_buffer: the buffers and the encoder after the call
update_buffer(self, bufs, enc) ==
    LET staging == create_buffer_init(bufs, cast_slice(self.data), {"COPY_SRC"})
    IN  [buffers |-> staging.buffers,
         encoder |-> Append(enc, CopyBufferToBuffer(staging.buffer, 0,
                                    self.buffer, 0, SizeOfUniformData))]

\* device.create_bind_group_layout
BindGroupLayout(entries, label) == [entries |-> entries, label |-> label]

\* device.create_bind_group
BindGroup(layout, entries, label) ==
    [layout |-> layout, entries |-> entries, label |-> label]

\* camera_uniform.buffer.as_entire_binding() at a binding index
BindGroupEntry(index, buffer) == [binding |-> index, resource |-> buffer]

\* UniformBinding::new
UniformBindingNew(uniform) ==
    LET layout == BindGroupLayout(
                    <<[binding            |-> 0,
                       visibility         |-> {"VERTEX", "FRAGMENT"},
                       ty                 |-> "Uniform",
                       has_dynamic_offset |-> FALSE]>>,
                    "CameraBinding::layout")
    IN  [layout     |-> layout,
         bind_group |-> BindGroup(layout,
                                  <<BindGroupEntry(0, uniform.buffer)>>,
                                  "CameraBinding::bind_group")]

\* rebind leaving the bind group it has
rebind_keeping_bind_group(self, uniform) == self

\* UniformBinding::rebind
rebind(self, uniform) ==
    [self EXCEPT !.bind_group = BindGroup(self.layout,
                                          <<BindGroupEntry(0, uniform.buffer)>>,
                                          "CameraBinding::bind_group")]

\* a command encoder's render pass whose draws read the uniform buffer
RenderPass(uniform) == <<"render_pass", uniform>>

\* the contents of destination after size bytes were copied to it from source
CopyWords(source, source_offset, destination, destination_offset, size) ==
    LET from  == source_offset \div SizeOfF32
        to    == destination_offset \div SizeOfF32
        count == size \div SizeOfF32
    IN  [i \in 1..Len(destination) |->
            IF i > to /\ i <= to + count THEN source[i - to + from]
            ELSE destination[i]]

\* queue.submit: the commands run in the order they were recorded; the result
\* is the buffers afterwards and what the last render pass read
RECURSIVE Execute(_, _, _)
Execute(bufs, commands, read) ==
    IF commands = <<>> THEN [buffers |-> bufs, seen |-> read]
    ELSE LET c == Head(commands)
         IN  IF c[1] = "copy_buffer_to_buffer"
             THEN Execute([bufs EXCEPT ![c[4]].contents =
                              CopyWords(bufs[c[2]].contents, c[3],
                                        bufs[c[4]].contents, c[5], c[6])],
                          Tail(commands), read)
             ELSE Execute(bufs, Tail(commands), <<bufs[c[2]].contents>>)

\* the buffers left once the staging buffers the submission held are dropped
Release(bufs) ==
    LET kept == {b \in DOMAIN bufs : "COPY_SRC" \notin bufs[b].usage}
    IN  [b \in kept |-> bufs[b]]

\* the translation by (x, y, z) and the scaling by (x, y, z), as Matrix4
Translation(x, y, z) ==
    <<<<1, 0, 0, 0>>, <<0, 1, 0, 0>>, <<0, 0, 1, 0>>, <<x, y, z, 1>>>>
Scaling(x, y, z) ==
    <<<<x, 0, 0, 0>>, <<0, y, 0, 0>>, <<0, 0, z, 0>>, <<0, 0, 0, 1>>>>

\* the cameras a demo passes: a position and the view matrix calc_matrix()
\* returns for it
Cameras ==
    {[position |-> <<1, 2, 3>>, matrix |-> Translation(0 - 1, 0 - 2, 0 - 3)],
     [position |-> <<0, 0, 2>>, matrix |-> Translation(0, 0, 0 - 2)]}

\* the projections a demo passes, by the matrix calc_matrix() returns; they do
\* not commute with the view matrices
Projections ==
    {[matrix |-> Scaling(2, 1, 1)], [matrix |-> Scaling(1, 3, 2)]}

\* ------------------------------------------------------------ events
\* WindowEvent values: <<"CloseRequested">>, <<"KeyboardInput", physical_key,
\* state>>, <<"Resized", width, height>>, <<"RedrawRequested">> and, standing
\* for every other variant, <<"Focused">>.
\* PhysicalKey is <<"Code", key_code>> or <<"Unidentified">>.
PhysicalKeys == {<<"Code", "Escape">>, <<"Code", "KeyW">>, <<"Unidentified">>}
ElementStates == {"Pressed", "Released"}

WindowEvents ==
    {<<"CloseRequested">>, <<"RedrawRequested">>, <<"Focused">>}
    \cup {<<"KeyboardInput", k, st>> : k \in PhysicalKeys, st \in ElementStates}
    \cup {<<"Resized", w, h>> : w \in Dims, h \in Dims}

\* DeviceEvent values: <<"MouseMotion", dx, dy>> and, standing for every other
\* variant, <<"Button">>
DeviceEvents ==
    {<<"Button">>} \cup {<<"MouseMotion", dx, dy>> : dx \in Deltas, dy \in Deltas}

\* ElementState::is_pressed
is_pressed(state) == state = "Pressed"

\* the first match arm without the state: Pressed field
IsExitEventAnyState(event) ==
    \/ event[1] = "CloseRequested"
    \/ /\ event[1] = "KeyboardInput"
       /\ event[2] = <<"Code", "Escape">>

\* the first match arm of window_event: CloseRequested, or KeyboardInput with
\* state Pressed and physical_key Code(Escape)
IsExitEvent(event) ==
    \/ event[1] = "CloseRequested"
    \/ /\ event[1] = "KeyboardInput"
       /\ event[3] = "Pressed"
       /\ event[2] = <<"Code", "Escape">>

\* the second match arm: any other KeyboardInput whose physical_key is Code(_)
IsKeyEvent(event) ==
    /\ event[1] = "KeyboardInput"
    /\ event[2][1] = "Code"

\* the guard without the window id comparison
OwnsWindowAnyId(self, window_id) ==
    self.tag = "Initialized"

\* the guard of window_event: self is Initialized and the event is for the
\* Display's window
OwnsWindow(self, window_id) ==
    /\ self.tag = "Initialized"
    /\ window_id = self.display.window

\* the KeyboardInput arm passing true for pressed
KeyboardCallsAlwaysPressed(key_code, state) ==
    <<<<"process_keyboard", key_code, TRUE>>>>

\* the body of the KeyboardInput arm
KeyboardCalls(key_code, state) ==
    <<<<"process_keyboard", key_code, is_pressed(state)>>>>

\* the RedrawRequested arm rendering before it requests the next redraw
RedrawCallsRenderFirst(display) ==
    <<<<"render", display>>, <<"request_redraw", display.window>>>>

\* the RedrawRequested arm without the request for the next redraw
RedrawCallsNoRequest(display) ==
    <<<<"render", display>>>>

\* the body of the RedrawRequested arm
RedrawCalls(display) ==
    <<<<"request_redraw", display.window>>, <<"render", display>>>>

\* window_event giving up the Display and the demo when it asks for the exit
window_event_drop_on_exit(self, window_id, event) ==
    IF ~OwnsWindow(self, window_id)
    THEN [self |-> self, calls |-> <<>>]
    ELSE IF IsExitEvent(event)
    THEN [self |-> Uninitialized, calls |-> <<<<"exit">>>>]
    ELSE IF IsKeyEvent(event)
    THEN [self |-> self, calls |-> KeyboardCalls(event[2][2], event[3])]
    ELSE IF event[1] = "Resized"
    THEN [self |-> [self EXCEPT !.display =
                        DisplayResize(self.display, event[2], event[3])],
          calls |-> <<<<"Display::resize", event[2], event[3]>>>>]
    ELSE IF event[1] = "RedrawRequested"
    THEN [self |-> self, calls |-> RedrawCalls(self.display)]
    ELSE [self |-> self, calls |-> <<>>]

\* window_event matching the exit arm before it looks at *self
window_event_exit_unguarded(self, window_id, event) ==
    IF IsExitEvent(event)
    THEN [self |-> self, calls |-> <<<<"exit">>>>]
    ELSE IF ~OwnsWindow(self, window_id)
    THEN [self |-> self, calls |-> <<>>]
    ELSE IF IsKeyEvent(event)
    THEN [self |-> self, calls |-> KeyboardCalls(event[2][2], event[3])]
    ELSE IF event[1] = "Resized"
    THEN [self |-> [self EXCEPT !.display =
                        DisplayResize(self.display, event[2], event[3])],
          calls |-> <<<<"Display::resize", event[2], event[3]>>>>]
    ELSE IF event[1] = "RedrawRequested"
    THEN [self |-> self, calls |-> RedrawCalls(self.display)]
    ELSE [self |-> self, calls |-> <<>>]

\* App::window_event: the new *self and the calls made, in order
window_event(self, window_id, event) ==
    IF ~OwnsWindow(self, window_id)
    THEN [self |-> self, calls |-> <<>>]
    ELSE IF IsExitEvent(event)
    THEN [self |-> self, calls |-> <<<<"exit">>>>]
    ELSE IF IsKeyEvent(event)
    THEN [self |-> self, calls |-> KeyboardCalls(event[2][2], event[3])]
    ELSE IF event[1] = "Resized"
    THEN [self |-> [self EXCEPT !.display =
                        DisplayResize(self.display, event[2], event[3])],
          calls |-> <<<<"Display::resize", event[2], event[3]>>>>]
    ELSE IF event[1] = "RedrawRequested"
    THEN [self |-> self, calls |-> RedrawCalls(self.display)]
    ELSE [self |-> self, calls |-> <<>>]

\* device_event passing the delta's components in the wrong order
device_event_swapped(self, event) ==
    IF self.tag = "Initialized" /\ event[1] = "MouseMotion"
    THEN [self |-> self, calls |-> <<<<"process_mouse", event[3], event[2]>>>>]
    ELSE [self |-> self, calls |-> <<>>]

\* App::device_event
device_event(self, event) ==
    IF self.tag = "Initialized" /\ event[1] = "MouseMotion"
    THEN [self |-> self, calls |-> <<<<"process_mouse", event[2], event[3]>>>>]
    ELSE [self |-> self, calls |-> <<>>]

\* ------------------------------------------------------------ the host loop
\* the windows a call of calls asks a redraw for
RECURSIVE Requested(_)
Requested(calls) ==
    IF calls = <<>> THEN {}
    ELSE (IF Head(calls)[1] = "request_redraw" THEN {Head(calls)[2]} ELSE {})
         \cup Requested(Tail(calls))

Snapshot == [app |-> app, loop |-> loop, redraw |-> redraw]

Signal(handler, window_id, event) ==
    [handler |-> handler, window_id |-> window_id, event |-> event]

\* the demo's camera state once D::init has called CameraUniform::new, with
\* an empty encoder for the first frame
CamInit ==
    LET made  == CameraUniformNew(NoBuffers)
        spare == CameraUniformNew(made.buffers)
    IN  /\ camera_uniform = made.self
        /\ spare_uniform = spare.self
        /\ buffers = spare.buffers
        /\ binding = UniformBindingNew(made.self)
        /\ bound = <<"new", "camera_uniform">>
        /\ pending = <<>>
        /\ flushed = <<>>
        /\ encoder = <<>>
        /\ recorded = <<>>
        /\ seen = <<>>
        /\ lastInput = <<>>

\* run: app starts Uninitialized and the event loop starts running
Init ==
    /\ CamInit
    /\ app = Uninitialized
    /\ loop = "running"
    /\ nextWindow = 1
    /\ redraw = {}
    /\ created = [windows |-> 0, displays |-> 0, inits |-> 0, transitions |-> 0]
    /\ pre = [app |-> Uninitialized, loop |-> "running", redraw |-> {}]
    /\ lastEvent = Signal("none", 0, <<>>)
    /\ lastCalls = <<>>
    /\ lastResize = <<>>
    /\ frame = FALSE

\* the handlers' effects on the program: the action of each signal on app,
\* the loop, the windows and the pending redraw requests

\* a resume signal: resumed runs, a panic aborts the process
ResumedStep(w, h, outcome) ==
    /\ loop = "running"
    /\ nextWindow <= MaxWindows
    /\ UNCHANGED camVars
    /\ LET r == resumed(app, nextWindow, Size(w, h), created.inits + 1, outcome)
       IN  /\ app' = r.self
           /\ loop' = IF r.panic THEN "aborted" ELSE loop
           /\ nextWindow' = IF outcome = "no_window" THEN nextWindow
                                                     ELSE nextWindow + 1
           /\ redraw' = redraw \cup Requested(r.calls)
           /\ created' =
                [windows |-> created.windows + Count(r.calls, "create_window"),
                 displays |-> created.displays + Count(r.calls, "Display::new"),
                 inits |-> created.inits + Count(r.calls, "init"),
                 transitions |-> created.transitions +
                     (IF app.tag = "Uninitialized" /\ r.self.tag = "Initialized"
                      THEN 1 ELSE 0)]
           /\ lastResize' = IF outcome = "ok" THEN <<>> ELSE lastResize
           /\ frame' = frame

\* the windows an event can be for: those created so far and the foreign ones
LiveWindows == ForeignWindows \cup (1..(nextWindow - 1))

\* a window event: window_event runs; event_loop.exit() only marks the loop
\* as exiting, and events already queued are still delivered until it stops
WindowEventStep(window_id, event) ==
    /\ loop \in {"running", "exiting"}
    /\ UNCHANGED camVars
    /\ LET r == window_event(app, window_id, event)
       IN  /\ app' = r.self
           /\ loop' = IF Count(r.calls, "exit") > 0 THEN "exiting" ELSE loop
           /\ redraw' = (IF event[1] = "RedrawRequested"
                         THEN redraw \ {window_id} ELSE redraw)
                        \cup Requested(r.calls)
           /\ lastResize' =
                IF /\ app.tag = "Initialized"
                   /\ window_id = app.display.window
                   /\ event[1] = "Resized"
                THEN <<Size(event[2], event[3])>>
                ELSE lastResize
           /\ frame' = IF Count(r.calls, "render") = 1 THEN ~frame ELSE frame
           /\ UNCHANGED <<nextWindow, created>>

\* a device event: device_event runs
DeviceEventStep(event) ==
    /\ loop \in {"running", "exiting"}
    /\ UNCHANGED camVars
    /\ app' = device_event(app, event).self
    /\ UNCHANGED <<loop, nextWindow, redraw, created, lastResize, frame>>

\* the record of the handler that ran: the state it began in, its signal and
\* its calls
Record(handler, window_id, event, calls) ==
    /\ pre' = Snapshot
    /\ lastEvent' = Signal(handler, window_id, event)
    /\ lastCalls' = calls

\* the host delivers a resume signal
Resumed ==
    \E w \in Dims, h \in Dims, outcome \in Outcomes :
        /\ ResumedStep(w, h, outcome)
        /\ Record("resumed", nextWindow, <<"Resumed", outcome>>,
                  resumed(app, nextWindow, Size(w, h), created.inits + 1,
                          outcome).calls)

\* the host delivers a window event
WindowEvent ==
    \E window_id \in LiveWindows, event \in WindowEvents :
        /\ WindowEventStep(window_id, event)
        /\ Record("window_event", window_id, event,
                  window_event(app, window_id, event).calls)

\* the host delivers a device event
DeviceEvent ==
    \E event \in DeviceEvents :
        /\ DeviceEventStep(event)
        /\ Record("device_event", 0, event, device_event(app, event).calls)

\* run_app returns once the loop was asked to exit
LoopExit ==
    /\ loop = "exiting"
    /\ loop' = "stopped"
    /\ UNCHANGED <<app, nextWindow, redraw, created, pre, lastEvent, lastCalls,
                   lastResize, frame>>
    /\ UNCHANGED camVars

Next == Resumed \/ WindowEvent \/ DeviceEvent \/ LoopExit

Spec == Init /\ [][Next]_vars

\* ------------------------------------------------------------ the fair loop
\* the same loop without the record of the last handler
Unrecorded == UNCHANGED <<pre, lastEvent, lastCalls>>

ResumedLive ==
    \E w \in Dims, h \in Dims, outcome \in Outcomes :
        ResumedStep(w, h, outcome) /\ Unrecorded

WindowEventLive ==
    \E window_id \in LiveWindows, event \in WindowEvents :
        WindowEventStep(window_id, event) /\ Unrecorded

DeviceEventLive ==
    \E event \in DeviceEvents : DeviceEventStep(event) /\ Unrecorded

\* the host answers a pending redraw request of window_id
DeliverRedrawTo(window_id) ==
    /\ window_id \in redraw
    /\ WindowEventStep(window_id, <<"RedrawRequested">>)
    /\ Unrecorded

NextLive == ResumedLive \/ WindowEventLive \/ DeviceEventLive \/ LoopExit

\* the host answers every redraw request that stays pending
SpecLive ==
    /\ Init
    /\ [][NextLive]_vars
    /\ \A window_id \in 1..MaxWindows : WF_vars(DeliverRedrawTo(window_id))

\* ------------------------------------------------------------ the camera
\* the demo recomputes the uniform data
UpdateViewProj ==
    /\ \E camera \in Cameras, projection \in Projections :
         /\ camera_uniform' = update_view_proj(camera_uniform, camera, projection)
         /\ lastInput' = <<camera, projection>>
    /\ UNCHANGED <<buffers, encoder, recorded, seen>>
    /\ UNCHANGED <<spare_uniform, binding, bound, pending, flushed>>
    /\ UNCHANGED appVars

\* the demo calls update_buffer with the frame's encoder
UpdateBuffer ==
    /\ Len(encoder) < MaxCommands
    /\ LET r == update_buffer(camera_uniform, buffers, encoder)
       IN  /\ buffers' = r.buffers
           /\ encoder' = r.encoder
    /\ recorded' = Append(recorded, "update_buffer")
    /\ pending' = <<camera_uniform.data>>
    /\ UNCHANGED <<camera_uniform, seen, lastInput>>
    /\ UNCHANGED <<spare_uniform, binding, bound, flushed>>
    /\ UNCHANGED appVars

\* the demo records a render pass reading the camera's buffer on the encoder
RecordRenderPass ==
    /\ Len(encoder) < MaxCommands
    /\ encoder' = Append(encoder, RenderPass(camera_uniform.buffer))
    /\ recorded' = Append(recorded, "render_pass")
    /\ UNCHANGED <<camera_uniform, buffers, seen, lastInput>>
    /\ UNCHANGED <<spare_uniform, binding, bound, pending, flushed>>
    /\ UNCHANGED appVars

\* the demo submits the encoder and starts the next frame with a new one
Submit ==
    /\ LET r == Execute(buffers, encoder, seen)
       IN  /\ buffers' = Release(r.buffers)
           /\ seen' = r.seen
    /\ encoder' = <<>>
    /\ recorded' = <<>>
    /\ flushed' = IF pending # <<>> THEN pending ELSE flushed
    /\ pending' = <<>>
    /\ UNCHANGED <<camera_uniform, lastInput>>
    /\ UNCHANGED <<spare_uniform, binding, bound>>
    /\ UNCHANGED appVars

\* the CameraUniform of the given name
Uniform(name) ==
    IF name = "camera_uniform" THEN camera_uniform ELSE spare_uniform

UniformNames == {"camera_uniform", "spare_uniform"}

\* the demo rebinds its UniformBinding to a CameraUniform
Rebind ==
    /\ \E name \in UniformNames :
         /\ binding' = rebind(binding, Uniform(name))
         /\ bound' = <<"rebind", name>>
    /\ UNCHANGED <<camera_uniform, buffers, encoder, recorded, seen, lastInput>>
    /\ UNCHANGED <<spare_uniform, pending, flushed>>
    /\ UNCHANGED appVars

NextCam ==
    \/ UpdateViewProj
    \/ UpdateBuffer
    \/ RecordRenderPass
    \/ Submit
    \/ Rebind

SpecCam == Init /\ [][NextCam]_vars

\* ------------------------------------------------------------ claims
\* what the last handler was given, and the state it started in
ByWindowEvent == lastEvent.handler = "window_event"
ByDeviceEvent == lastEvent.handler = "device_event"
WasInitialized == pre.app.tag = "Initialized"
\* the last signal was a window event for the window of the Display held
ForOwnedWindow ==
    /\ ByWindowEvent
    /\ WasInitialized
    /\ lastEvent.window_id = pre.app.display.window
DemoHooks == {"process_keyboard", "process_mouse", "render"}
NoDemoHook == \A i \in 1..Len(lastCalls) : lastCalls[i][1] \notin DemoHooks
EscapeDown == <<"KeyboardInput", <<"Code", "Escape">>, "Pressed">>

\* C1: across one run, whatever signals the host sends, the Uninitialized ->
\* Initialized transition fires exactly once and create_window, Display::new
\* and D::init are each performed exactly once (never more, and once each as
\* soon as the state is Initialized).
C1_InitExactlyOnce ==
    /\ created.transitions <= 1
    /\ created.windows <= 1
    /\ created.displays <= 1
    /\ created.inits <= 1
    /\ app.tag = "Initialized" =>
          /\ created.transitions = 1
          /\ created.windows = 1
          /\ created.displays = 1
          /\ created.inits = 1

\* C2: once a close request or an Escape key-down for the owned window was
\* handled while Initialized, the loop is in its exit state, and a window or
\* device event delivered after that invokes no demo hook.
C2_NoDispatchAfterExit ==
    /\ (ForOwnedWindow /\ lastEvent.event \in {<<"CloseRequested">>, EscapeDown})
          => loop \in {"exiting", "stopped"}
    /\ ((ByWindowEvent \/ ByDeviceEvent) /\ pre.loop = "exiting") => NoDemoHook

\* C3: a device event delivered while Uninitialized makes no call and leaves
\* the state Uninitialized; while Initialized, MouseMotion with delta (dx, dy)
\* makes exactly the call process_mouse(dx, dy) and any other device event
\* makes no call.
C3_DeviceEvents ==
    ByDeviceEvent =>
        IF ~WasInitialized
        THEN lastCalls = <<>> /\ app = Uninitialized
        ELSE IF lastEvent.event[1] = "MouseMotion"
        THEN lastCalls =
                <<<<"process_mouse", lastEvent.event[2], lastEvent.event[3]>>>>
        ELSE lastCalls = <<>>

C3_Witness ==
    /\ ByDeviceEvent
    /\ WasInitialized
    /\ lastEvent.event = <<"MouseMotion", 1, 0 - 1>>
    /\ lastCalls = <<<<"process_mouse", 1, 0 - 1>>>>

\* C4: a Resized(W, H) event with W > 0 and H > 0 for the owned window while
\* Initialized calls Display::resize(W, H) while it is handled, after which the
\* config is (W, H) and the surface is configured with (W, H); and whenever
\* render is called after such a resize of the Display it is given, that
\* Display's config and configured surface are those of the latest resize.
C4_ResizeBeforeRedraw ==
    /\ (/\ ForOwnedWindow
        /\ lastEvent.event[1] = "Resized"
        /\ lastEvent.event[2] > 0
        /\ lastEvent.event[3] > 0)
          => LET size == Size(lastEvent.event[2], lastEvent.event[3])
             IN  /\ lastCalls =
                      <<<<"Display::resize", lastEvent.event[2], lastEvent.event[3]>>>>
                 /\ app.display.config = size
                 /\ app.display.surface = <<size>>
    /\ \A i \in 1..Len(lastCalls) :
          (/\ lastCalls[i][1] = "render"
           /\ lastResize # <<>>
           /\ lastResize[1].width > 0
           /\ lastResize[1].height > 0)
            => /\ lastCalls[i][2].config = lastResize[1]
               /\ lastCalls[i][2].surface = lastResize

\* a render that follows a resize: the window was created 1 x 1, resized to
\* 2 x 1, and the redraw request handled next renders on the 2 x 1 surface
C4_Witness ==
    /\ ForOwnedWindow
    /\ lastEvent.event = <<"RedrawRequested">>
    /\ lastResize = <<Size(2, 1)>>
    /\ Len(lastCalls) = 2
    /\ lastCalls[2] = <<"render", app.display>>
    /\ app.display.surface = <<Size(2, 1)>>

\* C5: a window event whose window id is not that of the owned window is
\* dropped: it makes no call (no exit, no demo hook, no redraw request) and
\* leaves the App value, with the Display's config, and the loop as they were,
\* whatever the event is.
C5_OtherWindowDropped ==
    (/\ ByWindowEvent
     /\ WasInitialized
     /\ lastEvent.window_id # pre.app.display.window)
      => /\ lastCalls = <<>>
         /\ app = pre.app
         /\ pre.loop = "running" => loop = "running"
         /\ redraw \subseteq pre.redraw

\* a close request for a window the app does not own, while it runs
C5_Witness ==
    /\ ByWindowEvent
    /\ WasInitialized
    /\ lastEvent.window_id # pre.app.display.window
    /\ lastEvent.event = <<"CloseRequested">>
    /\ loop = "running"

\* C6: while Initialized, a window or device event makes the exit call, and
\* takes the loop out of its running state, exactly when it is a close request
\* or an Escape key-down for the owned window; nothing else does (Escape
\* released, another key, a resize, a redraw request, a device event).
C6_ExitIff ==
    ((ByWindowEvent \/ ByDeviceEvent) /\ WasInitialized)
      => LET asked == /\ ForOwnedWindow
                      /\ lastEvent.event \in {<<"CloseRequested">>, EscapeDown}
         IN  /\ Count(lastCalls, "exit") > 0 <=> asked
             /\ pre.loop = "running" => (loop # "running" <=> asked)

\* Escape released for the owned window leaves the loop running
C6_Witness ==
    /\ ForOwnedWindow
    /\ lastEvent.event = <<"KeyboardInput", <<"Code", "Escape">>, "Released">>
    /\ loop = "running"
    /\ Count(lastCalls, "exit") = 0

\* C7 as stated: while Initialized, every keyboard event for the owned window
\* other than Escape key-down makes exactly one process_keyboard call, whose
\* pressed flag is the event's state.
C7_EveryKeyForwarded ==
    (/\ ForOwnedWindow
     /\ lastEvent.event[1] = "KeyboardInput"
     /\ lastEvent.event # EscapeDown)
      => /\ Len(lastCalls) = 1
         /\ lastCalls[1][1] = "process_keyboard"
         /\ lastCalls[1][3] = (lastEvent.event[3] = "Pressed")

\* C7 amended: while Initialized, every keyboard event for the owned window
\* whose physical key is a key code (PhysicalKey::Code), other than Escape
\* key-down, makes exactly the call process_keyboard(key, pressed) with pressed
\* the event's state (Escape key-up included, with pressed false); an Escape
\* key-down makes no process_keyboard call; and a keyboard event whose
\* physical key is unidentified makes no call at all.
C7_KeyCodesForwarded ==
    (ForOwnedWindow /\ lastEvent.event[1] = "KeyboardInput")
      => LET key   == lastEvent.event[2]
             state == lastEvent.event[3]
         IN  IF lastEvent.event = EscapeDown
             THEN Count(lastCalls, "process_keyboard") = 0
             ELSE IF key[1] = "Code"
             THEN lastCalls = <<<<"process_keyboard", key[2], state = "Pressed">>>>
             ELSE lastCalls = <<>>

\* Escape released is forwarded with pressed false
C7_Witness ==
    /\ ForOwnedWindow
    /\ lastEvent.event = <<"KeyboardInput", <<"Code", "Escape">>, "Released">>
    /\ lastCalls = <<<<"process_keyboard", "Escape", FALSE>>>>

\* C8: while Initialized, a redraw request for the owned window first requests
\* another redraw on that window and then calls render once, with the Display
\* the app holds, and makes no other call; no other signal calls render.
C8_RedrawThenRender ==
    LET redrawn == ForOwnedWindow /\ lastEvent.event = <<"RedrawRequested">>
    IN  /\ redrawn =>
              /\ lastCalls = <<<<"request_redraw", pre.app.display.window>>,
                               <<"render", pre.app.display>>>>
              /\ app.display = pre.app.display
              /\ pre.app.display.window \in redraw
        /\ Count(lastCalls, "render") > 0 => redrawn

C8_Witness ==
    /\ ForOwnedWindow
    /\ lastEvent.event = <<"RedrawRequested">>
    /\ Count(lastCalls, "render") = 1
    /\ IndexOf(lastCalls, "request_redraw") < IndexOf(lastCalls, "render")

\* C9: once Initialized, the handlers hand input, update and render to the
\* demo: every frame that is rendered has the demo's update hook called
\* before its render hook.
C9_UpdateEachFrame ==
    Count(lastCalls, "render") > 0 =>
        /\ Count(lastCalls, "update") > 0
        /\ IndexOf(lastCalls, "update") < IndexOf(lastCalls, "render")

\* C10: each update_buffer call appends exactly one command at the end of the
\* encoder, a buffer-to-buffer copy of size_of(view_position) +
\* size_of(view_proj) bytes from offset 0 of a staging buffer no other command
\* uses to offset 0 of the camera's own buffer; so the encoder holds one
\* command per recording call, in call order, and a render pass recorded after
\* the call comes after its copy.
C10_OneCopyPerUpdate ==
    /\ Len(encoder) = Len(recorded)
    /\ \A i \in 1..Len(recorded) :
          IF recorded[i] = "update_buffer"
          THEN /\ encoder[i][1] = "copy_buffer_to_buffer"
               /\ encoder[i][2] \in DOMAIN buffers
               /\ encoder[i][2] # camera_uniform.buffer
               /\ buffers[encoder[i][2]].usage = {"COPY_SRC"}
               /\ \A j \in 1..Len(encoder) :
                     (j # i /\ encoder[j][1] = "copy_buffer_to_buffer")
                       => encoder[j][2] # encoder[i][2]
               /\ encoder[i][3] = 0
               /\ encoder[i][4] = camera_uniform.buffer
               /\ encoder[i][5] = 0
               /\ encoder[i][6] = 4 * SizeOfF32 + 16 * SizeOfF32
               /\ encoder[i][6] = SizeOfF32 * Len(buffers[encoder[i][2]].contents)
          ELSE encoder[i][1] = "render_pass"

\* two update_buffer calls of a camera that moved in between, and then a
\* render pass, on one encoder
C10_Witness ==
    /\ recorded = <<"update_buffer", "update_buffer", "render_pass">>
    /\ encoder[1][1] = "copy_buffer_to_buffer"
    /\ encoder[2][1] = "copy_buffer_to_buffer"
    /\ encoder[3] = RenderPass(camera_uniform.buffer)
    /\ encoder[1][2] # encoder[2][2]
    /\ buffers[encoder[1][2]].contents # buffers[encoder[2][2]].contents


\* C11: the lifecycle state only moves forward: a handler that starts
\* Initialized ends Initialized, whatever signal it is given, and a handler
\* that changes the state's tag is the resume handler.
C11_NoWayBack ==
    /\ WasInitialized => app.tag = "Initialized"
    /\ app.tag # pre.app.tag => lastEvent.handler = "resumed"
    /\ (ByWindowEvent \/ ByDeviceEvent) => app.tag = pre.app.tag

\* a close request for the owned window was handled, and a second resume
\* signal before it: the state is Initialized all along
C11_Witness ==
    /\ ForOwnedWindow
    /\ lastEvent.event = <<"CloseRequested">>
    /\ created.inits = 2
    /\ app.tag = "Initialized"


\* C13: when Display::new or D::init fails in the resume handler the process
\* aborts: that resume does not store a state (none becomes Initialized by
\* it), D::init is not called after a failed Display::new, and once the
\* process has aborted no handler runs, so no demo hook is called afterwards.
C13_FatalStartup ==
    /\ (/\ lastEvent.handler = "resumed"
        /\ lastEvent.event[2] \in {"no_display", "init_error"})
          => /\ loop = "aborted"
             /\ app = pre.app
             /\ NoDemoHook
             /\ lastEvent.event[2] = "no_display" => Count(lastCalls, "init") = 0
    /\ loop = "aborted" =>
          /\ lastEvent.handler = "resumed"
          /\ lastEvent.event[2] # "ok"
          /\ pre.loop = "running"

\* D::init returned Err on the first resume
C13_Witness ==
    /\ lastEvent.handler = "resumed"
    /\ lastEvent.event[2] = "init_error"
    /\ pre.app = Uninitialized
    /\ app = Uninitialized
    /\ Count(lastCalls, "init") = 1
    /\ loop = "aborted"


\* C15: while the state is Uninitialized every window event is without
\* effect, whatever it is: the handler makes no call (no exit, no demo hook),
\* the loop keeps running and the state stays Uninitialized.
C15_IdleUntilInitialized ==
    (ByWindowEvent /\ ~WasInitialized)
      => /\ lastCalls = <<>>
         /\ app = Uninitialized
         /\ loop = pre.loop
         /\ loop = "running"
         /\ redraw \subseteq pre.redraw

\* an Escape key-down delivered before any resume signal
C15_Witness ==
    /\ ByWindowEvent
    /\ ~WasInitialized
    /\ lastEvent.event = EscapeDown
    /\ app = Uninitialized
    /\ loop = "running"


\* C16: whenever the render hook is called, the surface of the Display it is
\* given has been configured, with that Display's stored width and height;
\* this includes the first redraw request after the state became Initialized,
\* with no resize before it.
C16_SurfaceConfiguredAtRender ==
    \A i \in 1..Len(lastCalls) :
        lastCalls[i][1] = "render"
          => lastCalls[i][2].surface = <<lastCalls[i][2].config>>


\* C17: the resume handler works in a fixed order: it creates the window,
\* requests the first redraw on it, creates the Display from it, calls D::init
\* with that Display, and then stores both as the Initialized state, stopping
\* at the first step that fails. So init is never called before the Display
\* exists, and a demo hook is only called by a handler that started in a
\* state stored after an init call returned.
C17_ResumeOrder ==
    /\ lastEvent.handler = "resumed" =>
          LET window  == lastEvent.window_id
              outcome == lastEvent.event[2]
              steps   == <<"create_window", "request_redraw", "Display::new", "init">>
              done    == CASE outcome = "no_window" -> 1
                           [] outcome = "no_display" -> 3
                           [] OTHER -> 4
          IN  /\ Len(lastCalls) = done
              /\ \A i \in 1..done : lastCalls[i][1] = steps[i]
              /\ \A i \in 1..done : i <= 3 => lastCalls[i][2] = window
              /\ done = 4 =>
                    /\ lastCalls[4][2].window = window
                    /\ lastCalls[4][2].config \in {Size(w, h) : w \in Dims, h \in Dims}
              /\ outcome = "ok" =>
                    /\ app.tag = "Initialized"
                    /\ app.display = lastCalls[4][2]
                    /\ app.demo = DemoOf(created.inits)
              /\ outcome # "ok" => app = pre.app
    /\ ~NoDemoHook =>
          /\ WasInitialized
          /\ created.inits >= 1
          /\ pre.app.demo # NoDemo

\* a resume that went through all its steps
C17_Witness ==
    /\ lastEvent.handler = "resumed"
    /\ lastEvent.event[2] = "ok"
    /\ Len(lastCalls) = 4
    /\ IndexOf(lastCalls, "request_redraw") < IndexOf(lastCalls, "Display::new")
    /\ app.display = lastCalls[4][2]


\* C20: there is no guard against a zero size: a Resized event for the owned
\* window with width 0 or height 0, while Initialized, is passed on as it is:
\* the one call made is Display::resize with those dimensions, the config
\* becomes exactly that size and the surface is configured with it.
C20_ZeroSizeForwarded ==
    (/\ ForOwnedWindow
     /\ lastEvent.event[1] = "Resized"
     /\ (lastEvent.event[2] = 0 \/ lastEvent.event[3] = 0))
      => /\ lastCalls =
              <<<<"Display::resize", lastEvent.event[2], lastEvent.event[3]>>>>
         /\ app.display.config = Size(lastEvent.event[2], lastEvent.event[3])
         /\ app.display.surface =
              <<Size(lastEvent.event[2], lastEvent.event[3])>>
         /\ app.display.window = pre.app.display.window

\* a window created 2 x 2 is resized to 0 x 1
C20_Witness ==
    /\ ForOwnedWindow
    /\ lastEvent.event = <<"Resized", 0, 1>>
    /\ pre.app.display.config = Size(2, 2)
    /\ app.display.config = Size(0, 1)
    /\ app.display.surface = <<Size(0, 1)>>


C14_ViewProjection ==
    lastInput # <<>> =>
        LET P  == lastInput[1].position
            V  == lastInput[1].matrix
            Pr == lastInput[2].matrix
        IN  /\ camera_uniform.data.view_position = <<P[1], P[2], P[3], 1>>
            /\ \A j \in 1..4 : \A i \in 1..4 :
                  camera_uniform.data.view_proj[j][i] =
                      Pr[1][i] * V[j][1] + Pr[2][i] * V[j][2]
                        + Pr[3][i] * V[j][3] + Pr[4][i] * V[j][4]
            /\ DOMAIN camera_uniform.data = {"view_position", "view_proj"}
            /\ camera_uniform.buffer = CameraUniformNew(NoBuffers).self.buffer

\* the camera at (1, 2, 3) under the projection scaling x by 2: the
\* translation column of Pr * V is (-2, -2, -3, 1), that of V * Pr would be
\* (-1, -2, -3, 1)
C14_Witness ==
    /\ lastInput # <<>>
    /\ lastInput[1].position = <<1, 2, 3>>
    /\ lastInput[2].matrix = Scaling(2, 1, 1)
    /\ camera_uniform.data.view_position = <<1, 2, 3, 1>>
    /\ camera_uniform.data.view_proj[4] = <<0 - 2, 0 - 2, 0 - 3, 1>>


\* C12: the bind group of a UniformBinding has exactly one entry, at binding
\* 0, and it is the buffer the CameraUniform last passed to new or rebind has
\* now, a live uniform buffer; the bind group is built on the binding's
\* layout, which is the one new created; and both CameraUniforms keep the
\* buffer they were created with.
C12_BindsCurrentBuffer ==
    /\ binding.bind_group.entries = <<BindGroupEntry(0, Uniform(bound[2]).buffer)>>
    /\ Uniform(bound[2]).buffer \in DOMAIN buffers
    /\ "UNIFORM" \in buffers[Uniform(bound[2]).buffer].usage
    /\ binding.bind_group.layout = binding.layout
    /\ binding.layout = UniformBindingNew(camera_uniform).layout
    /\ camera_uniform.buffer = CameraUniformNew(NoBuffers).self.buffer
    /\ spare_uniform.buffer
         = CameraUniformNew(CameraUniformNew(NoBuffers).buffers).self.buffer
    /\ camera_uniform.buffer # spare_uniform.buffer

\* the binding was rebound to the second CameraUniform, whose buffer is not
\* the one the binding was created for, and the first was updated and uploaded
\* since
C12_Witness ==
    /\ bound = <<"rebind", "spare_uniform">>
    /\ binding.bind_group.entries[1].resource = spare_uniform.buffer
    /\ lastInput # <<>>
    /\ buffers[camera_uniform.buffer].contents = cast_slice(camera_uniform.data)


\* the copies recorded on the current encoder, in order
Copies == SelectSeq(encoder, LAMBDA c : c[1] = "copy_buffer_to_buffer")

\* C19: update_buffer snapshots the data at the call. While the encoder is
\* not submitted, the source of the latest recorded copy holds the data
\* camera_uniform had at the latest update_buffer call, whatever
\* update_view_proj made of the data since; once the encoder was submitted,
\* the uniform buffer holds the data of the latest submitted update_buffer
\* call; and an update_buffer step leaves camera_uniform, its data and its
\* buffer, as it was.
C19_SnapshotAtCall ==
    /\ [](/\ pending # <<>> =>
               /\ Copies # <<>>
               /\ Copies[Len(Copies)][4] = camera_uniform.buffer
               /\ buffers[Copies[Len(Copies)][2]].contents = cast_slice(pending[1])
          /\ flushed # <<>> =>
               buffers[camera_uniform.buffer].contents = cast_slice(flushed[1]))
    /\ [][recorded' = Append(recorded, "update_buffer")
            => /\ camera_uniform' = camera_uniform
               /\ pending' = <<camera_uniform.data>>]_vars

\* update_view_proj changed the data after an update_buffer call whose encoder
\* is not submitted yet, and an earlier submission left in the uniform buffer
\* a snapshot that is not the data camera_uniform has now
C19_Witness ==
    /\ pending # <<>>
    /\ camera_uniform.data # pending[1]
    /\ flushed # <<>>
    /\ camera_uniform.data # flushed[1]
    /\ flushed # pending
    /\ buffers[camera_uniform.buffer].contents = cast_slice(flushed[1])

====
